---- MODULE Spec2Model ----
(***************************************************************************)
(* Batch resume scoring: the /api/v1/candidates/score/batch endpoint       *)
(* (main.py), the coordinator process_bulk_async and the local scoring     *)
(* function _fallback_score (services/async_pipeline.py).                  *)
(*                                                                         *)
(* Python values are modelled as tagged records: [type |-> "str", val |->  *)
(* <<characters>>], [type |-> "NoneType"], [type |-> "list", val |-> <<..>>]. *)
(* dicts are functions from key strings to values.  Floats are modelled as *)
(* exact rationals <<numerator, denominator>>; a score rounded to two      *)
(* decimals is kept as an integer number of hundredths (8000 = 80.00).     *)
(***************************************************************************)
EXTENDS Integers, Sequences, FiniteSets, TLC

VARIABLES requests, items, unit, results, completed, pc, response, run, previous, call, ret,
          services

vars == <<requests, items, unit, results, completed, pc, response, run, previous, call, ret,
          services>>

(***************************************************************************)
(* Bounds of the model.                                                    *)
(***************************************************************************)
MaxItems == 3

MaxSkills == 3

(***************************************************************************)
(* Python values.                                                          *)
(***************************************************************************)
PyStr(s) == [type |-> "str", val |-> s]

PyNone == [type |-> "NoneType"]

PyList(l) == [type |-> "list", val |-> l]

IsStr(x) == x.type = "str"

IsList(x) == x.type = "list"

(***************************************************************************)
(* str.lower(), str.split(), the `in` substring test.                      *)
(***************************************************************************)
UpperToLower ==
    [c \in {"A", "B", "C", "D", "E", "F", "G", "H", "I", "J", "K", "L", "M",
            "N", "O", "P", "Q", "R", "S", "T", "U", "V", "W", "X", "Y", "Z"} |->
        CASE c = "A" -> "a" [] c = "B" -> "b" [] c = "C" -> "c" [] c = "D" -> "d"
          [] c = "E" -> "e" [] c = "F" -> "f" [] c = "G" -> "g" [] c = "H" -> "h"
          [] c = "I" -> "i" [] c = "J" -> "j" [] c = "K" -> "k" [] c = "L" -> "l"
          [] c = "M" -> "m" [] c = "N" -> "n" [] c = "O" -> "o" [] c = "P" -> "p"
          [] c = "Q" -> "q" [] c = "R" -> "r" [] c = "S" -> "s" [] c = "T" -> "t"
          [] c = "U" -> "u" [] c = "V" -> "v" [] c = "W" -> "w" [] c = "X" -> "x"
          [] c = "Y" -> "y" [] c = "Z" -> "z"]

Lower(s) ==
    [i \in 1..Len(s) |-> IF s[i] \in DOMAIN UpperToLower THEN UpperToLower[s[i]] ELSE s[i]]

Whitespace == {" ", "\t", "\n", "\r"}

\* needle in haystack
Contains(haystack, needle) ==
    \E i \in 0..(Len(haystack) - Len(needle)) :
        \A j \in 1..Len(needle) : haystack[i + j] = needle[j]

\* the set of the words of s.split(): the maximal runs of non-whitespace
Split(s) ==
    LET starts == { i \in 1..Len(s) :
                      s[i] \notin Whitespace /\ (i = 1 \/ s[i - 1] \in Whitespace) }
        ends == { j \in 1..Len(s) :
                    s[j] \notin Whitespace /\ (j = Len(s) \/ s[j + 1] \in Whitespace) }
        end(i) == CHOOSE j \in ends : j >= i /\ \A k \in ends : k >= i => j <= k
    IN  { SubSeq(s, i, end(i)) : i \in starts }

\* set(w for w in text.split() if len(w) > 3)
LongWords(s) == { w \in Split(s) : Len(w) > 3 }

(***************************************************************************)
(* hashlib.md5(text.encode()).hexdigest()[:8] for the texts of the model,  *)
(* and int(.., 16) % 20 by Horner's rule (the seed does not fit 32 bits).  *)
(***************************************************************************)
TextEmpty == <<>>

TextPythonJava == <<"P", "y", "t", "h", "o", "n", " ", "J", "a", "v", "a">>

TextJava == <<"j", "a", "v", "a">>

TextPythonJavaRust ==
    <<"p", "y", "t", "h", "o", "n", " ", "j", "a", "v", "a", " ", "r", "u", "s", "t">>

TextPadded ==
    <<"P", "y", "t", "h", "o", "n", " ", "d", "e", "v", " ", "a", "b", " ", "a", "b", " ",
      "a", "b", " ", "a", "b", " ", "a", "a", " ", "a", "b", " ">>

TextJavaRust == <<"J", "a", "v", "a", " ", "R", "u", "s", "t">>

SkillPython == <<"P", "y", "t", "h", "o", "n">>

SkillJava == <<"j", "a", "v", "a">>

SkillRust == <<"R", "u", "s", "t">>

Md5Hex8(t) ==
    CASE t = TextEmpty -> <<"d", "4", "1", "d", "8", "c", "d", "9">>
      [] t = TextPythonJava -> <<"f", "9", "c", "e", "f", "e", "f", "1">>
      [] t = TextJava -> <<"9", "3", "f", "7", "2", "5", "a", "0">>
      [] t = TextPythonJavaRust -> <<"b", "1", "2", "7", "6", "c", "2", "1">>
      [] t = TextPadded -> <<"3", "d", "1", "8", "5", "f", "9", "f">>
      [] t = TextJavaRust -> <<"0", "9", "5", "e", "b", "3", "3", "6">>

HexVal(c) ==
    CASE c = "0" -> 0 [] c = "1" -> 1 [] c = "2" -> 2 [] c = "3" -> 3
      [] c = "4" -> 4 [] c = "5" -> 5 [] c = "6" -> 6 [] c = "7" -> 7
      [] c = "8" -> 8 [] c = "9" -> 9 [] c = "a" -> 10 [] c = "b" -> 11
      [] c = "c" -> 12 [] c = "d" -> 13 [] c = "e" -> 14 [] c = "f" -> 15

RECURSIVE HexMod(_, _, _)
HexMod(h, n, m) ==
    IF n = 0 THEN 0 ELSE (HexMod(h, n - 1, m) * 16 + HexVal(h[n])) % m

\* seed % 20, seed = int(md5(resume_text).hexdigest()[:8], 16)
SeedMod20(t) == HexMod(Md5Hex8(t), 8, 20)

(***************************************************************************)
(* Exact rational arithmetic for the float computations.                   *)
(***************************************************************************)
RECURSIVE GCD(_, _)
GCD(a, b) == IF b = 0 THEN a ELSE GCD(b, a % b)

Abs(a) == IF a < 0 THEN -a ELSE a

Rat(n, d) ==
    LET g == GCD(Abs(n), d) IN IF g = 0 THEN <<0, 1>> ELSE <<n \div g, d \div g>>

RInt(n) == <<n, 1>>

RAdd(a, b) == Rat(a[1] * b[2] + b[1] * a[2], a[2] * b[2])

RMul(a, b) ==
    LET g1 == GCD(Abs(a[1]), b[2])
        g2 == GCD(Abs(b[1]), a[2])
        h1 == IF g1 = 0 THEN 1 ELSE g1
        h2 == IF g2 = 0 THEN 1 ELSE g2
    IN  Rat((a[1] \div h1) * (b[1] \div h2), (a[2] \div h2) * (b[2] \div h1))

RLeq(a, b) == a[1] * b[2] <= b[1] * a[2]

RMin(a, b) == IF RLeq(a, b) THEN a ELSE b

RMax(a, b) == IF RLeq(b, a) THEN a ELSE b

\* round(x, 2), as a number of hundredths; ties go to the even hundredth
Round2(x) ==
    LET y == RMul(x, RInt(100))
        q == y[1] \div y[2]
        r == y[1] % y[2]
    IN  IF 2 * r < y[2] THEN q
        ELSE IF 2 * r > y[2] THEN q + 1
        ELSE IF q % 2 = 0 THEN q ELSE q + 1

(***************************************************************************)
(* The scoring function.                                                   *)
(***************************************************************************)
Weights == <<Rat(6, 10), Rat(4, 10)>>

score_from_components(skills_score, semantic_score) ==
    RAdd(RMul(skills_score, Weights[1]), RMul(semantic_score, Weights[2]))

\* [s for s in required_skills if s.lower() in resume_lower]
Matched(required_skills, resume_lower) ==
    SelectSeq(required_skills.val, LAMBDA s : Contains(resume_lower, Lower(s.val)))

\* Missing with the test made on the skill as written, not lowercased
MissingCaseSensitive(required_skills, resume_lower) ==
    SelectSeq(required_skills.val, LAMBDA s : ~Contains(resume_lower, s.val))

\* [s for s in required_skills if s.lower() not in resume_lower]
Missing(required_skills, resume_lower) ==
    SelectSeq(required_skills.val, LAMBDA s : ~Contains(resume_lower, Lower(s.val)))

Recommendation(overall) ==
    IF RLeq(RInt(80), overall) THEN "Highly Recommended"
    ELSE IF RLeq(RInt(60), overall) THEN "Recommended"
    ELSE IF RLeq(RInt(40), overall) THEN "Maybe"
    ELSE "Not Recommended"

\* Clamp without the upper limit
ClampLowerOnly(x) == RMax(RInt(0), x)

\* max(0, min(100, x))
Clamp(x) == RMax(RInt(0), RMin(RInt(100), x))

\* min(100, x)
Cap100(x) == RMin(RInt(100), x)

\* the divisor taken as it is, without the floor of 1
Max1Unfloored(n) == n

\* max(1, n)
Max1(n) == IF n < 1 THEN 1 ELSE n

fallback_score(resume_text, job_description, required_skills) ==
    LET seedmod == SeedMod20(resume_text.val)
        resume_lower == Lower(resume_text.val)
        jd_lower == Lower(job_description.val)
        total == Len(required_skills.val)
        matched_count ==
            Cardinality({ i \in 1..total :
                Contains(resume_lower, Lower(required_skills.val[i].val)) })
        skills_score ==
            Cap100(RMul(RMul(Rat(matched_count, Max1(total)), RInt(100)), Rat(12, 10)))
        resume_words == LongWords(resume_lower)
        jd_words == LongWords(jd_lower)
        overlap == Cardinality(resume_words \cap jd_words)
        semantic_score ==
            Cap100(RMul(Rat(overlap, Max1(Cardinality(jd_words))), RInt(100)))
        length_bonus == RMin(RInt(20), Rat(Len(resume_text.val), 500))
        overall0 == score_from_components(skills_score, semantic_score)
        overall1 == Cap100(RAdd(overall0, length_bonus))
        variance == Rat(seedmod - 10, 100)
        overall == Clamp(RMul(overall1, RAdd(RInt(1), variance)))
    IN  [overall_score |-> Round2(overall),
         skills_score |-> Round2(skills_score),
         semantic_score |-> Round2(semantic_score),
         found_skills |-> Matched(required_skills, resume_lower),
         matched_skills |-> Matched(required_skills, resume_lower),
         missing_skills |-> Missing(required_skills, resume_lower),
         explanation |->
            [strengths |-> << <<"Matched", matched_count, "/", total, "required skills">> >>,
             gaps |-> Missing(required_skills, resume_lower),
             recommendation |-> Recommendation(overall)]]

\* the exception _fallback_score raises, "" when it raises none: a method
\* called on None, an iteration over None, a division by zero
FallbackException(resume_text, job_description, required_skills) ==
    IF ~IsStr(resume_text) THEN "'NoneType' object has no attribute 'encode'"
    ELSE IF ~IsStr(job_description) THEN "'NoneType' object has no attribute 'lower'"
    ELSE IF ~IsList(required_skills) THEN "'NoneType' object is not iterable"
    ELSE IF \E i \in 1..Len(required_skills.val) : ~IsStr(required_skills.val[i])
         THEN "'NoneType' object has no attribute 'lower'"
    ELSE IF Max1(Len(required_skills.val)) = 0 THEN "division by zero"
    ELSE IF Max1(Cardinality(LongWords(Lower(job_description.val)))) = 0
         THEN "division by zero"
    ELSE ""

\* the exception the scoring of one item raises, "" when it raises none
ScoringException(resume_text, job_description, required_skills) ==
    IF ~IsStr(resume_text) THEN "object of type 'NoneType' has no len()"
    ELSE FallbackException(resume_text, job_description, required_skills)

\* process_single_sync giving an errored outcome a score of 0
process_single_sync_scored_error(resume_text, job_description, required_skills) ==
    LET e == ScoringException(resume_text, job_description, required_skills)
    IN  IF e = ""
        THEN fallback_score(resume_text, job_description, required_skills)
        ELSE [error |-> TRUE, message |-> e, trace |-> <<"Traceback", e>>,
              overall_score |-> 0]

process_single_sync(resume_text, job_description, required_skills) ==
    LET e == ScoringException(resume_text, job_description, required_skills)
    IN  IF e = ""
        THEN fallback_score(resume_text, job_description, required_skills)
        ELSE [error |-> TRUE, message |-> e, trace |-> <<"Traceback", e>>]

(***************************************************************************)
(* dict.get, the merge {**src} followed by update(res), and sorted().      *)
(***************************************************************************)
Get(d, k, default) == IF k \in DOMAIN d THEN d[k] ELSE default

\* Merge that keeps the outcome only
MergeOutcomeOnly(src, res) == res

\* record = {**src}; record.update(res)
Merge(src, res) ==
    [k \in (DOMAIN src) \cup (DOMAIN res) |-> IF k \in DOMAIN res THEN res[k] ELSE src[k]]

\* the input item after record = src; record.update(res), made without a copy
SrcAfterMergeInPlace(src, res) == Merge(src, res)

\* the input item after the merge: {**src} is a new dict and update() writes
\* into that one, src is only read
SrcAfterMerge(src, res) == src

\* sort_key with a default above every score
sort_key_default_above(r) ==
    IF "overall_score" \in DOMAIN r THEN r["overall_score"] ELSE 100 * 100 + 1

\* sort_key with 0 as the default
sort_key_default_zero(r) == IF "overall_score" \in DOMAIN r THEN r["overall_score"] ELSE 0

\* r.get("overall_score", -1), in hundredths
sort_key(r) == IF "overall_score" \in DOMAIN r THEN r["overall_score"] ELSE -100

\* InsertPos of a sort that puts a record before the records of equal key
InsertPosBeforeTies(s, r) ==
    1 + Cardinality({ i \in 1..Len(s) : sort_key(s[i]) > sort_key(r) })

\* the position at which the stable descending sort places r in the sorted s:
\* after every record whose key is at least r's
InsertPos(s, r) == 1 + Cardinality({ i \in 1..Len(s) : sort_key(s[i]) >= sort_key(r) })

Insert(s, r) ==
    LET p == InsertPos(s, r)
    IN  SubSeq(s, 1, p - 1) \o <<r>> \o SubSeq(s, p, Len(s))

\* sorted(out, key=sort_key, reverse=True): stable, ties keep their order
RECURSIVE SortedDesc(_)
SortedDesc(out) ==
    IF out = <<>> THEN <<>>
    ELSE Insert(SortedDesc(SubSeq(out, 1, Len(out) - 1)), out[Len(out)])

(***************************************************************************)
(* The JSON objects a client may post, one per resume.                     *)
(***************************************************************************)
NameA == <<"a">>

NameB == <<"b">>

NameC == <<"c">>

NameUnknown == <<"U", "n", "k", "n", "o", "w", "n">>

RequestPool ==
    << [resume_text |-> PyStr(TextPythonJava),
        job_description |-> PyStr(TextPythonJavaRust),
        required_skills |-> PyList(<<PyStr(SkillPython), PyStr(SkillJava)>>),
        fileName |-> PyStr(NameA)],
       [resume_text |-> PyStr(TextPythonJava),
        job_description |-> PyStr(TextPythonJavaRust),
        required_skills |-> PyList(<<PyStr(SkillPython), PyStr(SkillJava)>>),
        fileName |-> PyStr(NameB)],
       [candidate_id |-> PyStr(NameC)],
       [resume_text |-> PyNone,
        job_description |-> PyStr(TextJavaRust),
        required_skills |-> PyList(<<PyStr(SkillRust)>>),
        fileName |-> PyStr(NameC)],
       [resume_text |-> PyStr(TextJava),
        job_description |-> PyStr(TextJavaRust),
        required_skills |-> PyList(<<PyStr(SkillRust), PyNone>>),
        fileName |-> PyStr(NameB)] >>

Requests == { RequestPool[i] : i \in 1..Len(RequestPool) }

RECURSIVE SeqsUpTo(_, _)
SeqsUpTo(S, n) ==
    IF n = 0 THEN {<<>>}
    ELSE LET shorter == SeqsUpTo(S, n - 1)
         IN  shorter \cup { Append(q, x) : q \in { t \in shorter : Len(t) = n - 1 }, x \in S }

\* the module globals _skill_extractor and _semantic as the import leaves them
NoServices == [skill_extractor |-> "None", semantic |-> "None"]

\* _init_services: each global that is still None is constructed
init_services(s) ==
    [skill_extractor |-> IF s.skill_extractor = "None"
                         THEN "HFInferenceSkillExtractor" ELSE s.skill_extractor,
     semantic |-> IF s.semantic = "None" THEN "SemanticSimilarity" ELSE s.semantic]

\* a unit of work that initialises the services before it scores
UnitServicesInitialised(s) == init_services(s)

\* the module globals after one unit of work: _process_single_sync neither
\* calls _init_services nor assigns a global
UnitServices(s) == s

Pending == [pending |-> TRUE]

NoResponse == [kind |-> "none"]

NoCall == [active |-> FALSE]

(***************************************************************************)
(* The batch endpoint and the coordinator.                                 *)
(***************************************************************************)
Init ==
    /\ requests \in SeqsUpTo(Requests, MaxItems)
    /\ items = <<>>
    /\ unit = <<>>
    /\ results = <<>>
    /\ completed = <<>>
    /\ pc = "entry"
    /\ response = NoResponse
    /\ run = 1
    /\ previous = NoResponse
    /\ call = NoCall
    /\ ret = NoCall
    /\ services = NoServices

\* main.py: the item the endpoint builds from one posted object
BuildItem(r) ==
    [resume_text |-> Get(r, "resume_text", PyStr(<<>>)),
     job_description |-> Get(r, "job_description", PyStr(<<>>)),
     required_skills |-> Get(r, "required_skills", PyList(<<>>)),
     fileName |-> Get(r, "fileName", PyStr(NameUnknown))]

\* the arguments process_bulk_async binds to the unit of work of one item
TaskArgs(it) ==
    <<Get(it, "resume_text", PyStr(<<>>)),
      Get(it, "job_description", PyStr(<<>>)),
      Get(it, "required_skills", PyList(<<>>))>>

\* the arguments of unit i when every unit reads the loop variable late and
\* so gets the last item of the batch
UnitArgsOfLastItem(its, i) == TaskArgs(its[Len(its)])

\* for it in items: tasks.append(asyncio.to_thread(_process_single_sync, ...)):
\* the arguments of unit i are evaluated from item i when the task is made
UnitArgs(its, i) == TaskArgs(its[i])

\* score_candidates_batch up to the await of asyncio.gather: the items are
\* built and one unit of work per item is handed to the thread pool
Submit ==
    /\ pc = "entry"
    /\ items' = [i \in 1..Len(requests) |-> BuildItem(requests[i])]
    /\ unit' = [i \in 1..Len(requests) |-> [st |-> "queued", args |-> UnitArgs(items', i)]]
    /\ results' = [i \in 1..Len(requests) |-> Pending]
    /\ pc' = "gather"
    /\ UNCHANGED <<requests, completed, response, run, previous, call, ret, services>>

\* a worker thread picks up the unit of work
UnitStart(i) ==
    /\ pc \in {"gather", "returned"}
    /\ unit[i].st = "queued"
    /\ unit' = [unit EXCEPT ![i].st = "running"]
    /\ UNCHANGED <<requests, items, results, completed, pc, response, run, previous, call, ret, services>>

\* the units after unit i has finished, a failed outcome cancelling every
\* sibling that has not finished yet
UnitsAfterFinishCancelSiblings(u, i, res) ==
    [j \in 1..Len(u) |->
        IF j = i THEN [u[j] EXCEPT !.st = "done"]
        ELSE IF "error" \in DOMAIN res /\ u[j].st # "done"
             THEN [u[j] EXCEPT !.st = "cancelled"]
        ELSE u[j]]

\* the units after unit i has finished with outcome res: the exception of a
\* failed scoring was caught inside the unit, its future completes like any
\* other and no sibling is touched
UnitsAfterFinish(u, i, res) == [u EXCEPT ![i].st = "done"]

\* _process_single_sync returns in its thread; the future of the unit is set
\* (a thread is not stopped when the coordinator has gone on without it)
UnitFinish(i) ==
    /\ pc \in {"gather", "returned"}
    /\ unit[i].st = "running"
    /\ LET res == process_single_sync(unit[i].args[1], unit[i].args[2], unit[i].args[3])
       IN  /\ unit' = UnitsAfterFinish(unit, i, res)
           /\ results' = [results EXCEPT ![i] = res]
    /\ completed' = Append(completed, i)
    /\ services' = UnitServices(services)
    /\ UNCHANGED <<requests, items, pc, response, run, previous, call, ret>>

\* GatherReady of a wait that returns on the first completion
GatherReadyFirstCompleted(u) == Len(u) = 0 \/ \E i \in 1..Len(u) : u[i].st = "done"

\* GatherReady of a gather that swallows the exception of a unit
GatherReadySettled(u) == \A i \in 1..Len(u) : u[i].st \in {"done", "failed"}

\* asyncio.gather is ready once every awaitable has finished
GatherReady(u) == \A i \in 1..Len(u) : u[i].st = "done"

\* GatherResults in the order of completion
GatherResultsAsCompleted(res, order) == [k \in 1..Len(order) |-> res[order[k]]]

\* the list asyncio.gather returns: the results in the order of its arguments
GatherResults(res, order) == res

\* MergeAll that leaves the errored outcomes out
MergeAllSkipErrors(its, res) ==
    LET idx == SelectSeq([i \in 1..Len(its) |-> i], LAMBDA i : "error" \notin DOMAIN res[i])
    IN  [k \in 1..Len(idx) |-> Merge(its[idx[k]], res[idx[k]])]

\* for src, res in zip(items, results): out.append({**src} updated with res)
MergeAll(its, res) == [i \in 1..Len(its) |-> Merge(its[i], res[i])]

process_bulk_async_tail(its, res, order) ==
    SortedDesc(MergeAll(its, GatherResults(res, order)))

\* the coordinator resumes from the await, merges, sorts and returns; the
\* endpoint returns the list
GatherReturn ==
    /\ pc = "gather"
    /\ GatherReady(unit)
    /\ response' = [kind |-> "ok", body |-> process_bulk_async_tail(items, results, completed)]
    /\ items' = [i \in 1..Len(items) |-> SrcAfterMerge(items[i], results[i])]
    /\ pc' = "returned"
    /\ UNCHANGED <<requests, unit, results, completed, run, previous, call, ret, services>>

\* the client posts the same batch a second time; everything of the first
\* call is discarded, the client keeps the first response to compare
Resubmit ==
    /\ pc = "returned"
    /\ run = 1
    /\ previous' = response
    /\ run' = 2
    /\ pc' = "entry"
    /\ items' = <<>>
    /\ unit' = <<>>
    /\ results' = <<>>
    /\ completed' = <<>>
    /\ response' = NoResponse
    /\ UNCHANGED <<requests, call, ret, services>>

Next ==
    \/ Submit
    \/ \E i \in 1..Len(unit) : UnitStart(i)
    \/ \E i \in 1..Len(unit) : UnitFinish(i)
    \/ GatherReturn

Spec == Init /\ [][Next]_vars

\* the same batch posted twice, one call after the other
NextTwice ==
    \/ Submit
    \/ \E i \in 1..Len(unit) : UnitStart(i)
    \/ \E i \in 1..Len(unit) : UnitFinish(i)
    \/ GatherReturn
    \/ Resubmit

SpecTwice == Init /\ [][NextTwice]_vars

(***************************************************************************)
(* The same with a thread pool that may fail to start a worker thread:     *)
(* asyncio.to_thread then raises in the task of the unit, asyncio.gather   *)
(* passes the exception on to process_bulk_async, which does not catch it, *)
(* and the endpoint turns it into its HTTP 500 answer.                     *)
(***************************************************************************)
SpawnError == "can't start new thread"

UnitSpawnFails(i) ==
    /\ pc = "gather"
    /\ unit[i].st = "queued"
    /\ unit' = [unit EXCEPT ![i].st = "failed"]
    /\ UNCHANGED <<requests, items, results, completed, pc, response, run, previous, call, ret, services>>

\* raise HTTPException(status_code=500, detail=f"Batch processing failed: {str(e)}")
BatchFailure(e) ==
    [kind |-> "failure", status_code |-> 500, detail |-> <<"Batch processing failed: ", e>>]

GatherRaise ==
    /\ pc = "gather"
    /\ \E i \in 1..Len(unit) : unit[i].st = "failed"
    /\ response' = BatchFailure(SpawnError)
    /\ pc' = "returned"
    /\ UNCHANGED <<requests, items, unit, results, completed, run, previous, call, ret, services>>

NextFault ==
    \/ Submit
    \/ \E i \in 1..Len(unit) : UnitStart(i)
    \/ \E i \in 1..Len(unit) : UnitFinish(i)
    \/ \E i \in 1..Len(unit) : UnitSpawnFails(i)
    \/ GatherReturn
    \/ GatherRaise

\* the batches of the runs with a failing thread pool: a scored item, an item
\* with defaults only, an item whose scoring fails
FaultRequests == {RequestPool[1], RequestPool[3], RequestPool[4]}

InitFault == Init /\ requests \in SeqsUpTo(FaultRequests, MaxItems)

SpecFault == InitFault /\ [][NextFault]_vars

(***************************************************************************)
(* The scoring function on its own: the arguments are drawn in the initial *)
(* state and one call is made.                                             *)
(***************************************************************************)
ResumeTexts ==
    {TextEmpty, TextPythonJava, TextJava, TextPythonJavaRust, TextPadded, TextJavaRust}

JobDescriptions == {TextEmpty, TextPythonJavaRust, TextJavaRust}

Skills == {SkillPython, SkillJava, SkillRust, <<>>}

InitScore ==
    /\ requests = <<>>
    /\ items = <<>>
    /\ unit = <<>>
    /\ results = <<>>
    /\ completed = <<>>
    /\ pc = "scoring"
    /\ response = NoResponse
    /\ run = 1
    /\ previous = NoResponse
    /\ \E r \in ResumeTexts, j \in JobDescriptions, sk \in SeqsUpTo(Skills, MaxSkills) :
          call = [active |-> TRUE,
                  resume_text |-> PyStr(r),
                  job_description |-> PyStr(j),
                  required_skills |-> PyList([i \in 1..Len(sk) |-> PyStr(sk[i])])]
    /\ ret = NoCall
    /\ services = NoServices

ScoreCall ==
    /\ pc = "scoring"
    /\ call.active
    /\ ~ret.active
    /\ LET e == FallbackException(call.resume_text, call.job_description,
                                  call.required_skills)
       IN  ret' = [active |-> TRUE,
                   raised |-> e,
                   value |-> IF e = ""
                             THEN fallback_score(call.resume_text, call.job_description,
                                                 call.required_skills)
                             ELSE PyNone]
    /\ UNCHANGED <<requests, items, unit, results, completed, pc, response, run, previous, call, services>>

NextScore == ScoreCall

SpecScore == InitScore /\ [][NextScore]_vars

(***************************************************************************)
(* Vocabulary of the properties.                                           *)
(***************************************************************************)
Perms(n) == { f \in [1..n -> 1..n] : \A a, b \in 1..n : f[a] = f[b] => a = b }

ScoreKeys ==
    {"overall_score", "skills_score", "semantic_score", "found_skills",
     "matched_skills", "missing_skills", "explanation"}

ErrorKeys == {"error", "message", "trace"}

IsScored(r) == ScoreKeys \subseteq DOMAIN r /\ ErrorKeys \cap DOMAIN r = {}

IsErrored(r) ==
    /\ {"error", "message"} \subseteq DOMAIN r
    /\ r["error"] = TRUE
    /\ r["message"] # ""
    /\ ScoreKeys \cap DOMAIN r = {}

\* the overall score by which the specification ranks a record
RankOf(r) == IF IsErrored(r) THEN -100 ELSE r["overall_score"]

\* the items whose scoring fails
FailingItems ==
    { i \in 1..Len(items) :
        ScoringException(TaskArgs(items[i])[1], TaskArgs(items[i])[2],
                         TaskArgs(items[i])[3]) # "" }

\* the record carries the scores of its own resume, job description and skills
CarriesOwnScores(r) ==
    LET own == fallback_score(r["resume_text"], r["job_description"], r["required_skills"])
    IN  \A k \in DOMAIN own : k \in DOMAIN r /\ r[k] = own[k]

Returned == pc = "returned" /\ response.kind = "ok"

SetOf(s) == { s[i] : i \in 1..Len(s) }

\* C1: once process_bulk_async has returned, whatever the order in which the
\* units of work completed, the list has exactly as many records as the batch
\* has items and the records are, one for one, the items merged with their own
\* outcomes: none is dropped and none is duplicated.
C1_OneRecordPerItem ==
    Returned =>
        /\ Len(response.body) = Len(requests)
        /\ \E f \in Perms(Len(requests)) :
              \A k \in 1..Len(requests) :
                  response.body[k] = Merge(items[f[k]], results[f[k]])

C1_Witness ==
    /\ Returned
    /\ Len(requests) >= 3
    /\ completed[1] # 1
    /\ FailingItems # {}
    /\ \E i, j \in 1..Len(requests) : i # j /\ requests[i] = requests[j]

\* C2: when exactly one item of the batch fails in scoring, the call does not
\* raise; it returns N records, exactly one of them an error record with a
\* message, that record is the last one, and each of the other N-1 records
\* carries the scores the scoring function computes for the record's own inputs.
C2_OneFailureIsolated ==
    (pc = "returned" /\ Cardinality(FailingItems) = 1) =>
        /\ response.kind = "ok"
        /\ Len(response.body) = Len(requests)
        /\ Cardinality({ k \in 1..Len(response.body) : IsErrored(response.body[k]) }) = 1
        /\ IsErrored(response.body[Len(response.body)])
        /\ \A k \in 1..(Len(response.body) - 1) :
              IsScored(response.body[k]) /\ CarriesOwnScores(response.body[k])

C2_Witness ==
    /\ Returned
    /\ FailingItems = {1}
    /\ Len(requests) >= 3
    /\ \E k \in 1..Len(response.body) :
          IsScored(response.body[k]) /\ response.body[k]["overall_score"] = 0
    /\ \E k \in 1..Len(response.body) :
          IsScored(response.body[k]) /\ response.body[k]["overall_score"] > 0

\* C3: the returned list is in descending order of overall_score, an errored
\* record counting as -1 and so coming after every scored record, and the sort
\* is stable: records of equal overall_score are in the order of their items
\* in the input.
C3_SortedStable ==
    Returned =>
        LET b == response.body
            n == Len(b)
        IN  /\ \A k, l \in 1..n : k < l => RankOf(b[k]) >= RankOf(b[l])
            /\ \A k, l \in 1..n : (IsErrored(b[k]) /\ IsScored(b[l])) => l < k
            /\ \E f \in Perms(n) :
                  /\ \A k \in 1..n : b[k] = Merge(items[f[k]], results[f[k]])
                  /\ \A k, l \in 1..n :
                        (k < l /\ RankOf(b[k]) = RankOf(b[l])) => f[k] < f[l]

C3_Witness ==
    /\ Returned
    /\ Len(response.body) >= 3
    /\ 1 \in FailingItems
    /\ \E k \in 1..(Len(response.body) - 1) :
          /\ IsScored(response.body[k]) /\ IsScored(response.body[k + 1])
          /\ response.body[k]["overall_score"] = response.body[k + 1]["overall_score"]
          /\ response.body[k]["fileName"] # response.body[k + 1]["fileName"]

\* C4: the same batch posted twice gets the same response, records and order,
\* whatever the interleaving and the order of completion in each of the runs.
C4_SameBatchSameOutput ==
    (run = 2 /\ pc = "returned") => response = previous

C4_Witness ==
    /\ run = 2
    /\ Returned
    /\ Len(requests) >= 3
    /\ completed[1] = Len(requests)
    /\ \A i, j \in 1..Len(requests) : i # j => requests[i] # requests[j]

\* C5: fan-in barrier: a result exists only when every unit of work of the
\* batch has completed and delivered its outcome; while a unit is queued or
\* running nothing has been returned.
C5_FanInBarrier ==
    (response.kind = "ok") =>
        /\ Len(unit) = Len(requests)
        /\ \A i \in 1..Len(unit) : unit[i].st = "done" /\ "pending" \notin DOMAIN results[i]
        /\ Len(completed) = Len(requests)

C5_Witness ==
    /\ response.kind = "ok"
    /\ Len(requests) >= 2
    /\ completed[1] = 2

\* C6: every field of every input item, scored or errored, is on the item's
\* own output record with the value it has on the item; the file name is the
\* one the client posted.
C6_MetadataRoundTrip ==
    Returned =>
        \E f \in Perms(Len(requests)) :
            \A k \in 1..Len(requests) :
                LET r == response.body[k]
                    it == items[f[k]]
                IN  /\ \A key \in DOMAIN it : key \in DOMAIN r /\ r[key] = it[key]
                    /\ r["fileName"] = Get(requests[f[k]], "fileName", PyStr(NameUnknown))
                    /\ \A key \in DOMAIN results[f[k]] : r[key] = results[f[k]][key]

C6_Witness ==
    /\ Returned
    /\ \E k \in 1..Len(response.body) :
          IsScored(response.body[k]) /\ response.body[k]["fileName"] = PyStr(NameB)
    /\ \E k \in 1..Len(response.body) :
          IsErrored(response.body[k]) /\ response.body[k]["fileName"] = PyStr(NameC)
    /\ \E k \in 1..Len(response.body) :
          response.body[k]["fileName"] = PyStr(NameUnknown)

\* C7: what the caller of the batch endpoint receives is either the full
\* ranked list, one complete record (scored or errored) per posted object, or
\* one batch failure with a message and no list at all.
C7_FullListOrBatchFailure ==
    (pc = "returned") =>
        \/ /\ response.kind = "ok"
           /\ Len(response.body) = Len(requests)
           /\ \A k \in 1..Len(response.body) :
                 IsScored(response.body[k]) \/ IsErrored(response.body[k])
           /\ \A k, l \in 1..Len(response.body) :
                 k < l => RankOf(response.body[k]) >= RankOf(response.body[l])
        \/ /\ response.kind = "failure"
           /\ "body" \notin DOMAIN response
           /\ response.detail[2] # ""

C7_Witness ==
    /\ pc = "returned"
    /\ response.kind = "failure"
    /\ \E i \in 1..Len(unit) : unit[i].st = "done"
    /\ \E i \in 1..Len(unit) : unit[i].st = "running"

\* C8: every returned record holds either the score breakdown or the error
\* with its message, never both and never neither.
C8_ScoredXorErrored ==
    Returned =>
        \A k \in 1..Len(response.body) :
            LET r == response.body[k]
            IN  /\ IsScored(r) \/ IsErrored(r)
                /\ ~(ScoreKeys \cap DOMAIN r # {} /\ ErrorKeys \cap DOMAIN r # {})

C8_Witness ==
    /\ Returned
    /\ \E k \in 1..Len(response.body) : IsScored(response.body[k])
    /\ \E k \in 1..Len(response.body) :
          IsErrored(response.body[k])
          /\ response.body[k]["message"] = "'NoneType' object has no attribute 'lower'"

\* C9: matched_skills and missing_skills partition required_skills: they are
\* disjoint, together they are required_skills as a set, and a skill is
\* matched exactly when its lowercase form is a substring of the lowercased
\* resume text.
C9_SkillsPartition ==
    ret.active =>
        LET required == SetOf(call.required_skills.val)
            matched == SetOf(ret.value.matched_skills)
            missing == SetOf(ret.value.missing_skills)
        IN  /\ matched \cap missing = {}
            /\ matched \cup missing = required
            /\ \A s \in required :
                  s \in matched <=> Contains(Lower(call.resume_text.val), Lower(s.val))

C9_Witness ==
    /\ ret.active
    /\ call.resume_text = PyStr(TextPythonJavaRust)
    /\ PyStr(SkillRust) \in SetOf(ret.value.matched_skills)
    /\ ~Contains(call.resume_text.val, SkillRust)
    /\ Len(ret.value.missing_skills) = 0
    /\ Len(ret.value.matched_skills) >= 2

\* C10: overall_score, skills_score and semantic_score are each between 0 and
\* 100 (0 and 10000 hundredths), the length bonus and the hash variance
\* included.
C10_ScoresInRange ==
    ret.active =>
        /\ ret.value.overall_score >= 0 /\ ret.value.overall_score <= 10000
        /\ ret.value.skills_score >= 0 /\ ret.value.skills_score <= 10000
        /\ ret.value.semantic_score >= 0 /\ ret.value.semantic_score <= 10000

C10_Witness ==
    /\ ret.active
    /\ SeedMod20(call.resume_text.val) > 10
    /\ Len(call.resume_text.val) > 0
    /\ ret.value.skills_score = 10000
    /\ ret.value.semantic_score = 10000
    /\ ret.value.overall_score = 10000

\* C11: the recommendation is determined by the returned overall_score, the
\* value after rounding to two decimals: "Highly Recommended" exactly when
\* overall_score >= 80, "Recommended" when 60 <= overall_score < 80, "Maybe"
\* when 40 <= overall_score < 60, "Not Recommended" when overall_score < 40.
C11_RecommendationFromReturnedScore ==
    ret.active =>
        LET score == ret.value.overall_score
            rec == ret.value.explanation.recommendation
        IN  /\ rec = "Highly Recommended" <=> score >= 8000
            /\ rec = "Recommended" <=> (score >= 6000 /\ score < 8000)
            /\ rec = "Maybe" <=> (score >= 4000 /\ score < 6000)
            /\ rec = "Not Recommended" <=> score < 4000

\* C12: an empty required_skills list gives skills_score = 0 and no division
\* by zero, and an empty job_description gives semantic_score = 0.
C12_EmptyInputsScoreZero ==
    ret.active =>
        /\ Len(call.required_skills.val) = 0 =>
              ret.raised = "" /\ ret.value.skills_score = 0
        /\ Len(call.job_description.val) = 0 =>
              ret.raised = "" /\ ret.value.semantic_score = 0

C12_Witness ==
    /\ ret.active
    /\ ret.raised = ""
    /\ Len(call.required_skills.val) = 0
    /\ Len(call.job_description.val) = 0
    /\ Len(call.resume_text.val) > 0
    /\ ret.value.skills_score = 0
    /\ ret.value.semantic_score = 0
    /\ ret.value.overall_score > 0

\* C13: for an empty resume text, whatever the job description and whatever
\* the list of required-skill strings, _fallback_score raises nothing and
\* returns overall_score, skills_score and semantic_score all equal to 0.
C13_EmptyResumeAllZero ==
    (ret.active /\ Len(call.resume_text.val) = 0) =>
        /\ ret.raised = ""
        /\ ret.value.overall_score = 0
        /\ ret.value.skills_score = 0
        /\ ret.value.semantic_score = 0

\* C15: in every run of process_bulk_async the skill extractor and the
\* semantic-similarity service are never constructed: the globals
\* _skill_extractor and _semantic are None in every state, and at the return
\* every item whose scoring raises nothing has its scores all the same.
C15_CollaboratorsNeverConstructed ==
    /\ services.skill_extractor = "None"
    /\ services.semantic = "None"
    /\ Returned =>
          \A i \in 1..Len(items) : i \notin FailingItems => IsScored(results[i])

C15_Witness ==
    /\ Returned
    /\ Len(items) >= 2
    /\ services = NoServices
    /\ \E i \in 1..Len(items) : IsScored(results[i]) /\ results[i].overall_score > 0
    /\ \A i \in 1..Len(items) : unit[i].st = "done"

\* C16: process_bulk_async only reads its input: from the moment the batch is
\* handed over until after the return, whether the items were scored or
\* errored, the input list has the same items and every item the same fields
\* with the same values as when it was built; the output records are other
\* objects.
C16_InputUnchanged ==
    pc \in {"gather", "returned"} =>
        /\ Len(items) = Len(requests)
        /\ \A i \in 1..Len(items) : items[i] = BuildItem(requests[i])

C16_Witness ==
    /\ Returned
    /\ \E i \in 1..Len(items) : IsScored(results[i])
    /\ \E i \in 1..Len(items) : IsErrored(results[i])
    /\ \A i \in 1..Len(items) :
          /\ items[i] = BuildItem(requests[i])
          /\ DOMAIN items[i] = {"resume_text", "job_description", "required_skills", "fileName"}
    /\ \A k \in 1..Len(response.body) : DOMAIN response.body[k] # DOMAIN items[1]

\* C17: a failed unit of work leaves its siblings alone: once a unit has
\* finished with an error, in whatever order the units run, no sibling is
\* cancelled, the wait of the coordinator is never stuck (a unit can still
\* run or the coordinator can resume), and at the return every unit has
\* finished and its own outcome has been collected.
C17_FailureLeavesSiblingsRunning ==
    (\E i \in 1..Len(unit) : unit[i].st = "done" /\ IsErrored(results[i])) =>
        /\ \A j \in 1..Len(unit) : unit[j].st \in {"queued", "running", "done"}
        /\ pc = "gather" =>
              \/ \E j \in 1..Len(unit) : unit[j].st \in {"queued", "running"}
              \/ GatherReady(unit)
        /\ pc = "returned" =>
              /\ response.kind = "ok"
              /\ Len(response.body) = Len(unit)
              /\ \A j \in 1..Len(unit) :
                    /\ unit[j].st = "done"
                    /\ results[j] # Pending
                    /\ j \notin FailingItems => IsScored(results[j])

C17_Witness ==
    /\ Returned
    /\ Len(unit) = 3
    /\ completed[1] = 2
    /\ IsErrored(results[2])
    /\ IsScored(results[1])
    /\ IsScored(results[3])
    /\ \A j \in 1..Len(unit) : unit[j].st = "done"

\* C18: every outcome is paired with its own item, whatever the order in
\* which the units completed: in each record of the returned list the score
\* fields, or the error with its message, are the outcome of scoring that
\* record's own resume_text, job_description and required_skills, and the
\* record has no field besides those of its item and of that outcome.
C18_OutcomeOfOwnItem ==
    Returned =>
        \A k \in 1..Len(response.body) :
            LET r == response.body[k]
                own == process_single_sync(r["resume_text"], r["job_description"],
                                           r["required_skills"])
            IN  /\ DOMAIN r = DOMAIN own \cup
                        {"resume_text", "job_description", "required_skills", "fileName"}
                /\ \A key \in DOMAIN own : r[key] = own[key]

C18_Witness ==
    /\ Returned
    /\ Len(items) = 3
    /\ completed = <<3, 1, 2>>
    /\ IsScored(results[1]) /\ results[1].overall_score > 0
    /\ IsErrored(results[2])
    /\ IsScored(results[3]) /\ results[3].overall_score = 0
    /\ \E k \in 1..Len(response.body) :
          /\ response.body[k]["fileName"] = items[2]["fileName"]
          /\ IsErrored(response.body[k])
          /\ response.body[k]["message"] = results[2].message

\* C19: when several items of a batch are errored, every errored record comes
\* after every scored record of the returned list, a record scored 0
\* included, and the errored records stand in the order their items have in
\* the input.
C19_ErroredLastInInputOrder ==
    (Returned /\ Cardinality(FailingItems) >= 2) =>
        /\ \A a, b \in 1..Len(response.body) :
              (IsErrored(response.body[a]) /\ IsScored(response.body[b])) => b < a
        /\ SelectSeq(response.body, IsErrored)
              = SelectSeq(MergeAll(items, results), IsErrored)
        /\ Len(SelectSeq(response.body, IsErrored)) = Cardinality(FailingItems)

C19_Witness ==
    /\ Returned
    /\ Len(items) = 3
    /\ FailingItems = {1, 3}
    /\ results[1].message # results[3].message
    /\ results[2].overall_score = 0
    /\ completed[1] = 3
    /\ response.body = <<Merge(items[2], results[2]), Merge(items[1], results[1]),
                         Merge(items[3], results[3])>>

====
